---- MODULE Spec2Model ----
(***************************************************************************)
(* Model of the FlipInput widget (src/components/themed/FlipInput.js): the *)
(* dual-field numeric conversion engine, its keystroke accumulator, its    *)
(* props reconciliation, its timers and its clipboard paste.               *)
(*                                                                         *)
(* A JavaScript string is a sequence of one-character strings:             *)
(*   "1.5" is <<"1", ".", "5">>, '' is <<>>.                               *)
(* The focus flags, the flip animation and rerenderCounter are            *)
(* presentation state and are left out.                                    *)
(* The widget runs under React 16 (legacy mode): setState inside an event  *)
(* handler or a lifecycle method is applied when the handler returns,      *)
(* setState inside a timer or after an await is applied at once, and       *)
(* setState on an unmounted instance is dropped together with its callback.*)
(***************************************************************************)
EXTENDS Integers, Sequences, FiniteSets, TLC

(***************************************************************************)
(* Bounds of the model                                                     *)
(***************************************************************************)
MaxLen == 3              \* a key is appended only to an accumulator shorter than this
MaxCounter == 1          \* largest forceUpdateGuiCounter the parent passes
MaxResetTimers == 1      \* currency-change reset timers pending at once
MaxPasteReads == 1       \* clipboard reads of handlePasteClipboard pending at once
MaxOverrideLen == 3      \* longest raw override the parent passes to the sanitizer

\* the field information of the widget the parent configures by default
PrimaryMaxEntryDecimals == 2        \* primaryInfo.maxEntryDecimals
PrimaryMaxConversionDecimals == 2   \* primaryInfo.maxConversionDecimals
SecondaryMaxEntryDecimals == 1      \* secondaryInfo.maxEntryDecimals
SecondaryMaxConversionDecimals == 1 \* secondaryInfo.maxConversionDecimals

DIVIDE_PRECISION == 18   \* third argument of bns.div in setSecondaryToPrimary

(***************************************************************************)
(* Strings                                                                 *)
(***************************************************************************)
DigitChars == <<"0", "1", "2", "3", "4", "5", "6", "7", "8", "9">>

IsDigit(c) == \E i \in 1..10 : DigitChars[i] = c

DigitVal(c) == (CHOOSE i \in 1..10 : DigitChars[i] = c) - 1

Max(a, b) == IF a >= b THEN a ELSE b

\* String.prototype.indexOf(c) + 1, 0 when c does not occur
IndexOf(s, c) ==
  IF \E i \in 1..Len(s) : s[i] = c
  THEN CHOOSE i \in 1..Len(s) : s[i] = c /\ \A j \in 1..(i - 1) : s[j] # c
  ELSE 0

Includes(s, c) == IndexOf(s, c) # 0

CountOf(s, c) == Cardinality({i \in 1..Len(s) : s[i] = c})

\* s.replace(from, to) with a string pattern: only the first occurrence
ReplaceFirst(s, from, to) ==
  [i \in 1..Len(s) |-> IF i = IndexOf(s, from) THEN to ELSE s[i]]

\* s.slice(0, n) for n >= 0
Take(s, n) == SubSeq(s, 1, IF n < Len(s) THEN n ELSE Len(s))

\* s.slice(n) for n >= 0
Drop(s, n) == SubSeq(s, n + 1, Len(s))

\* s.slice(0, -1)
DropLast(s) == IF Len(s) = 0 THEN << >> ELSE SubSeq(s, 1, Len(s) - 1)

\* s.split('.')[0] and s.split('.')[1] of a string that contains a period
SplitIntegers(s) == Take(s, IndexOf(s, ".") - 1)

SplitDecimals(s) ==
  LET rest == Drop(s, IndexOf(s, "."))
  IN  IF Includes(rest, ".") THEN Take(rest, IndexOf(rest, ".") - 1) ELSE rest

\* s.replace(/[^0-9.]/g, '')
StripNonNumeric(s) == SelectSeq(s, LAMBDA c : IsDigit(c) \/ c = ".")

\* s.match(/[^0-9.]/) is not null
MatchesNonNumeric(s) == \E i \in 1..Len(s) : ~IsDigit(s[i]) /\ s[i] # "."

(***************************************************************************)
(* locales/intl.js and util/utils.js: truncation                           *)
(***************************************************************************)
decimalSeparator == "."

truncateDecimalsPeriod(input, precision) ==
  LET inp == IF input = << >> THEN <<"0">> ELSE input
  IN  IF ~Includes(inp, ".") THEN inp
      ELSE IF precision > 0
           THEN SplitIntegers(inp) \o <<".">> \o Take(SplitDecimals(inp), precision)
           ELSE SplitIntegers(inp)

\* intl.js truncateDecimals: splits at the locale's decimal separator
truncateDecimals(input, precision) ==
  LET inp == IF input = << >> THEN <<"0">> ELSE input
  IN  IF ~Includes(inp, decimalSeparator) THEN inp
      ELSE IF precision > 0
           THEN SplitIntegers(inp) \o <<decimalSeparator>> \o Take(SplitDecimals(inp), precision)
           ELSE SplitIntegers(inp)

\* utils.js truncateDecimals
utilsTruncateDecimals(input, precision) ==
  LET inp == IF input = << >> THEN <<"0">> ELSE input
  IN  IF ~Includes(inp, ".") THEN inp
      ELSE IF precision > 0
           THEN SplitIntegers(inp) \o <<".">> \o Take(SplitDecimals(inp), precision)
           ELSE SplitIntegers(inp)

(***************************************************************************)
(* biggystring: exact decimal arithmetic on strings                        *)
(***************************************************************************)
\* the digits without their leading zeros
RECURSIVE StripZeros(_)
StripZeros(s) == IF s # << >> /\ s[1] = "0" THEN StripZeros(Drop(s, 1)) ELSE s

RECURSIVE Pow10(_)
Pow10(n) == IF n = 0 THEN 1 ELSE 10 * Pow10(n - 1)

\* new BN(digits, 10): the empty string is zero
RECURSIVE DigitsToInt(_)
DigitsToInt(s) ==
  IF s = << >> THEN 0 ELSE 10 * DigitsToInt(DropLast(s)) + DigitVal(s[Len(s)])

\* BN.toString(10)
RECURSIVE IntToDigits(_)
IntToDigits(n) ==
  IF n < 10 THEN <<DigitChars[n + 1]>>
  ELSE IntToDigits(n \div 10) \o <<DigitChars[(n % 10) + 1]>>

\* number of fractional digits of a decimal string
Scale(s) == IF Includes(s, ".") THEN Len(s) - IndexOf(s, ".") ELSE 0

Mantissa(s) == DigitsToInt(SelectSeq(s, LAMBDA c : c # "."))

\* drop trailing zeros of the fraction, and the period when nothing follows it
RECURSIVE TrimEnd(_)
TrimEnd(s) ==
  IF ~Includes(s, ".") THEN s
  ELSE IF s[Len(s)] = "0" \/ s[Len(s)] = "." THEN TrimEnd(DropLast(s))
  ELSE s

RECURSIVE Zeros(_)
Zeros(n) == IF n <= 0 THEN << >> ELSE <<"0">> \o Zeros(n - 1)

\* the digits d with a period inserted k places from the right
AddDecimal(d, k) ==
  LET padded == Zeros(k + 1 - Len(d)) \o d
  IN  IF k = 0 THEN d
      ELSE Take(padded, Len(padded) - k) \o <<".">> \o Drop(padded, Len(padded) - k)

\* arbitrary-precision integers as digit strings, as BN computes them
MantissaDigits(s) ==
  LET d == StripZeros(SelectSeq(s, LAMBDA c : c # "."))
  IN  IF d = << >> THEN <<"0">> ELSE d

\* x + y + carry
RECURSIVE AddDigits(_, _, _)
AddDigits(x, y, carry) ==
  IF x = << >> /\ y = << >> THEN (IF carry = 0 THEN << >> ELSE <<DigitChars[carry + 1]>>)
  ELSE LET a == IF x = << >> THEN 0 ELSE DigitVal(x[Len(x)])
           b == IF y = << >> THEN 0 ELSE DigitVal(y[Len(y)])
           v == a + b + carry
       IN  AddDigits(DropLast(x), DropLast(y), v \div 10) \o <<DigitChars[(v % 10) + 1]>>

\* x * m + carry for one digit m
RECURSIVE MulByDigit(_, _, _)
MulByDigit(x, m, carry) ==
  IF x = << >> THEN (IF carry = 0 THEN << >> ELSE <<DigitChars[carry + 1]>>)
  ELSE LET v == DigitVal(x[Len(x)]) * m + carry
       IN  MulByDigit(DropLast(x), m, v \div 10) \o <<DigitChars[(v % 10) + 1]>>

RECURSIVE MulDigits(_, _)
MulDigits(x, y) ==
  IF y = << >> THEN << >>
  ELSE AddDigits(MulDigits(x, DropLast(y)) \o <<"0">>, MulByDigit(x, DigitVal(y[Len(y)]), 0), 0)

bnsMul(x, y) ==
  LET product == StripZeros(MulDigits(MantissaDigits(x), MantissaDigits(y)))
  IN  TrimEnd(AddDecimal(IF product = << >> THEN <<"0">> ELSE product, Scale(x) + Scale(y)))

\* the first n fractional digits of r / d, for 0 <= r < d
RECURSIVE FracDigits(_, _, _)
FracDigits(r, d, n) ==
  IF n = 0 THEN << >>
  ELSE <<DigitChars[((10 * r) \div d) + 1]>> \o FracDigits((10 * r) % d, d, n - 1)

\* bns.div(x, y, precision): BN.div asserts a nonzero divisor
bnsDiv(x, y, precision) ==
  LET shift == Max(Scale(x), Scale(y))
      a == Mantissa(x) * Pow10(shift - Scale(x))
      b == Mantissa(y) * Pow10(shift - Scale(y))
  IN  IF b = 0 THEN [ok |-> FALSE, value |-> << >>]
      ELSE [ok |-> TRUE,
            value |-> TrimEnd(IntToDigits(a \div b) \o <<".">> \o FracDigits(a % b, b, precision))]

bnsEq(x, y) ==
  Mantissa(x) * Pow10(Max(Scale(x), Scale(y)) - Scale(x))
    = Mantissa(y) * Pow10(Max(Scale(x), Scale(y)) - Scale(y))

(***************************************************************************)
(* locales/intl.js: display formatting                                     *)
(***************************************************************************)
\* input.replace(/^0+/, ''), then a leading '0' before a leading period
RECURSIVE StripLeadingZeros(_)
StripLeadingZeros(s) ==
  IF s # << >> /\ s[1] = "0" THEN StripLeadingZeros(Drop(s, 1)) ELSE s

prettifyNumber(input) ==
  LET out == StripLeadingZeros(input)
  IN  IF out # << >> /\ out[1] = "." THEN <<"0">> \o out ELSE out

\* the integer digits grouped by three with the en_US grouping separator
RECURSIVE Grouped(_)
Grouped(d) ==
  IF Len(d) <= 3 THEN d
  ELSE Grouped(Take(d, Len(d) - 3)) \o <<",">> \o Drop(d, Len(d) - 3)

formatNumber(input) ==
  LET ints == IF Includes(input, ".") THEN SplitIntegers(input) ELSE input
      decs == IF Includes(input, ".") THEN SplitDecimals(input) ELSE << >>
      whole == IF ints = << >> THEN <<"0">> ELSE Grouped(ints)
  IN  IF decs = << >> THEN whole ELSE whole \o <<".">> \o decs

formatNumberInput(input) ==
  IF input # << >> /\ input[Len(input)] = "."
  THEN formatNumber(DropLast(input)) \o <<".">>
  ELSE formatNumber(input)

Display(decimalAmount) == formatNumberInput(prettifyNumber(decimalAmount))

(***************************************************************************)
(* FlipInput.js: pure functions                                            *)
(***************************************************************************)
sanitizeDecimalAmount(amount, maxEntryDecimals) ==
  truncateDecimalsPeriod(StripNonNumeric(ReplaceFirst(amount, ",", ".")), maxEntryDecimals)

checkKeyPress(keyPressed, decimalAmount) ==
  IF keyPressed = <<".">> /\ Includes(decimalAmount, ".") THEN FALSE
  ELSE IF MatchesNonNumeric(keyPressed) THEN FALSE
  ELSE TRUE

Amounts(pDec, sDec) ==
  [primaryDecimalAmount |-> pDec, primaryDisplayAmount |-> Display(pDec),
   secondaryDecimalAmount |-> sDec, secondaryDisplayAmount |-> Display(sDec)]

\* mutant: the product is truncated to the bound of the primary field
setPrimaryToSecondary_PrimaryBound(p, primaryDecimalAmount) ==
  [ok |-> TRUE,
   amounts |-> Amounts(primaryDecimalAmount,
                       utilsTruncateDecimals(bnsMul(primaryDecimalAmount,
                                                    p.exchangeSecondaryToPrimaryRatio),
                                             p.primaryInfo.maxConversionDecimals))]

\* ok = FALSE: the function threw
setPrimaryToSecondary(p, primaryDecimalAmount) ==
  [ok |-> TRUE,
   amounts |-> Amounts(primaryDecimalAmount,
                       utilsTruncateDecimals(bnsMul(primaryDecimalAmount,
                                                    p.exchangeSecondaryToPrimaryRatio),
                                             p.secondaryInfo.maxConversionDecimals))]

\* mutant: the quotient is truncated to the bound of the secondary field
setSecondaryToPrimary_SecondaryBound(p, secondaryDecimalAmount) ==
  LET q == IF p.exchangeSecondaryToPrimaryRatio = <<"0">>
           THEN [ok |-> TRUE, value |-> <<"0">>]
           ELSE bnsDiv(secondaryDecimalAmount, p.exchangeSecondaryToPrimaryRatio,
                       DIVIDE_PRECISION)
  IN  IF ~q.ok THEN [ok |-> FALSE, amounts |-> Amounts(<< >>, << >>)]
      ELSE [ok |-> TRUE,
            amounts |-> Amounts(utilsTruncateDecimals(q.value, p.secondaryInfo.maxConversionDecimals),
                                secondaryDecimalAmount)]

\* mutant: the division is carried to the entry bound of the secondary field
setSecondaryToPrimary_ShortDivision(p, secondaryDecimalAmount) ==
  LET q == IF p.exchangeSecondaryToPrimaryRatio = <<"0">>
           THEN [ok |-> TRUE, value |-> <<"0">>]
           ELSE bnsDiv(secondaryDecimalAmount, p.exchangeSecondaryToPrimaryRatio,
                       p.secondaryInfo.maxEntryDecimals)
  IN  IF ~q.ok THEN [ok |-> FALSE, amounts |-> Amounts(<< >>, << >>)]
      ELSE [ok |-> TRUE,
            amounts |-> Amounts(utilsTruncateDecimals(q.value, p.primaryInfo.maxConversionDecimals),
                                secondaryDecimalAmount)]

setSecondaryToPrimary(p, secondaryDecimalAmount) ==
  LET q == IF p.exchangeSecondaryToPrimaryRatio = <<"0">>
           THEN [ok |-> TRUE, value |-> <<"0">>]
           ELSE bnsDiv(secondaryDecimalAmount, p.exchangeSecondaryToPrimaryRatio,
                       DIVIDE_PRECISION)
  IN  IF ~q.ok THEN [ok |-> FALSE, amounts |-> Amounts(<< >>, << >>)]
      ELSE [ok |-> TRUE,
            amounts |-> Amounts(utilsTruncateDecimals(q.value, p.primaryInfo.maxConversionDecimals),
                                secondaryDecimalAmount)]

(***************************************************************************)
(* The widget: props, state, lifecycle, timers, clipboard                  *)
(***************************************************************************)
VARIABLES
  props,        \* this.props
  state,        \* this.state
  phase,        \* "constructed", "mounted" or "unmounted"
  timers,       \* pending componentDidMount timers
  resetTimers,  \* pending 50 ms currency-change timers
  menuOpen,     \* the clipboard popup menu is open
  pasteReads,   \* handlePasteClipboard calls awaiting Clipboard.getString()
  platformOS,   \* Platform.OS of the device the widget runs on
  fault,        \* an exception escaped a handler, a lifecycle method or a timer
  lastOp,       \* the operation that produced this state, with its key
  calls,        \* arguments of the onAmountChanged calls made by lastOp
  errors,       \* showError calls made by lastOp
  sendScene,    \* SendComponent of SendScene.js: its props, its state, the running submit
  txDetails     \* TransactionDetailsComponent of SendScene.js: state.amountFiat and
                \* props.edgeTransaction.metadata

\* the variables of the FlipInput widget
flipVars == <<props, state, phase, timers, resetTimers, menuOpen, pasteReads, platformOS,
              fault, lastOp, calls, errors>>

vars == <<props, state, phase, timers, resetTimers, menuOpen, pasteReads, platformOS,
          fault, lastOp, calls, errors, sendScene, txDetails>>

Backspace == <<"B", "a", "c", "k", "s", "p", "a", "c", "e">>
\* keys of a numeric keyboard and a letter
Keys == {Backspace, <<"1">>, <<".">>, <<",">>, <<"a">>}

\* what Clipboard.getString() may resolve to
Clipboards == {<< >>, <<"1">>, <<"1", ",", "1">>, <<"a", "1">>}

Overrides == {<< >>, <<"1", ",", "2", "5", "9">>}

Ratios == {<< >>, <<"0">>, <<"2">>}

CurrencyCodes == {"BTC", "ETH"}

Op(kind, key) == [kind |-> kind, key |-> key]

\* Object.assign(state, amounts), { ...state, ...amounts }
Merge(st, amounts) ==
  [st EXCEPT !.primaryDecimalAmount = amounts.primaryDecimalAmount,
             !.primaryDisplayAmount = amounts.primaryDisplayAmount,
             !.secondaryDecimalAmount = amounts.secondaryDecimalAmount,
             !.secondaryDisplayAmount = amounts.secondaryDisplayAmount]

\* mutant: the override is sanitized against the entry bound of the secondary field
getInitialState_SecondaryEntryBound(p) ==
  LET blank == [isToggled |-> FALSE,
                overridePrimaryDecimalAmount |-> << >>,
                primaryDisplayAmount |-> << >>,
                forceUpdateGuiCounter |-> 0,
                secondaryDisplayAmount |-> << >>,
                primaryDecimalAmount |-> << >>,
                secondaryDecimalAmount |-> << >>]
  IN  IF p.overridePrimaryDecimalAmount = << >> THEN blank
      ELSE Merge(blank,
                 setPrimaryToSecondary(p,
                   sanitizeDecimalAmount(p.overridePrimaryDecimalAmount,
                                         p.secondaryInfo.maxEntryDecimals)).amounts)

getInitialState(p) ==
  LET blank == [isToggled |-> FALSE,
                overridePrimaryDecimalAmount |-> << >>,
                primaryDisplayAmount |-> << >>,
                forceUpdateGuiCounter |-> 0,
                secondaryDisplayAmount |-> << >>,
                primaryDecimalAmount |-> << >>,
                secondaryDecimalAmount |-> << >>]
  IN  IF p.overridePrimaryDecimalAmount = << >> THEN blank
      ELSE Merge(blank,
                 setPrimaryToSecondary(p,
                   sanitizeDecimalAmount(p.overridePrimaryDecimalAmount,
                                         p.primaryInfo.maxEntryDecimals)).amounts)

\* The result of a handler: the next state, the onAmountChanged calls it made,
\* and ok = FALSE when it threw (the state is then the one it started from).
Result(st, cs, ok) == [state |-> st, calls |-> cs, ok |-> ok]

\* live: the instance is mounted; React drops a setState and its callback otherwise
\* setAmounts names the conversion handed to setStateAmounts
callSetAmounts(setAmounts, p, decimalAmount) ==
  IF setAmounts = "setPrimaryToSecondary"
  THEN setPrimaryToSecondary(p, decimalAmount)
  ELSE setSecondaryToPrimary(p, decimalAmount)

\* p: this.props
setStateAmounts(st, p, decimalAmount, setAmounts, live) ==
  LET r == callSetAmounts(setAmounts, p, decimalAmount)
  IN  IF ~r.ok THEN Result(st, << >>, FALSE)
      ELSE IF live THEN Result(Merge(st, r.amounts), <<r.amounts.primaryDecimalAmount>>, TRUE)
      ELSE Result(st, << >>, TRUE)

onKeyPress(st, p, keyPressed, decimalAmount, maxEntryDecimals, setAmounts, live) ==
  LET key == ReplaceFirst(keyPressed, ",", ".")
  IN  IF key = Backspace
      THEN setStateAmounts(st, p, truncateDecimals(DropLast(decimalAmount), maxEntryDecimals),
                           setAmounts, live)
      ELSE IF checkKeyPress(key, decimalAmount)
      THEN setStateAmounts(st, p, truncateDecimals(decimalAmount \o key, maxEntryDecimals),
                           setAmounts, live)
      ELSE Result(st, << >>, TRUE)

\* key.match(/[0-9]/) and value.match(/[^0-9]/) are not null
MatchesDigit(s) == \E i \in 1..Len(s) : IsDigit(s[i])

MatchesNonDigit(s) == \E i \in 1..Len(s) : ~IsDigit(s[i])

\* value.slice(value.length - 1)
LastChar(s) == IF s = << >> THEN << >> ELSE <<s[Len(s)]>>

\* mutant: the key is appended without checkKeyPress and without truncation
onPrimaryKeyPress_Unchecked(os, st, p, key) ==
  IF os = "android" /\ MatchesDigit(key) THEN Result(st, << >>, TRUE)
  ELSE IF key = Backspace
  THEN onKeyPress(st, p, key, st.primaryDecimalAmount, p.primaryInfo.maxEntryDecimals,
                  "setPrimaryToSecondary", TRUE)
  ELSE setStateAmounts(st, p, st.primaryDecimalAmount \o StripNonNumeric(ReplaceFirst(key, ",", ".")),
                       "setPrimaryToSecondary", TRUE)

\* os: Platform.OS; on Android a digit is left to the change-text handler
onPrimaryKeyPress(os, st, p, key) ==
  IF os = "android" /\ MatchesDigit(key) THEN Result(st, << >>, TRUE)
  ELSE onKeyPress(st, p, key, st.primaryDecimalAmount, p.primaryInfo.maxEntryDecimals,
                  "setPrimaryToSecondary", TRUE)

\* mutant: the key-press handler takes the digits on Android too
onSecondaryKeyPress_DigitsToo(os, st, p, key) ==
  onKeyPress(st, p, key, st.secondaryDecimalAmount, p.secondaryInfo.maxEntryDecimals,
             "setSecondaryToPrimary", TRUE)

onSecondaryKeyPress(os, st, p, key) ==
  IF os = "android" /\ MatchesDigit(key) THEN Result(st, << >>, TRUE)
  ELSE onKeyPress(st, p, key, st.secondaryDecimalAmount, p.secondaryInfo.maxEntryDecimals,
                  "setSecondaryToPrimary", TRUE)

\* iOS: nothing; Android: the last character of a text made of digits only
onPrimaryChangeText(os, st, p, value) ==
  IF os = "ios" THEN Result(st, << >>, TRUE)
  ELSE IF MatchesNonDigit(value) THEN Result(st, << >>, TRUE)
  ELSE onKeyPress(st, p, LastChar(value), st.primaryDecimalAmount,
                  p.primaryInfo.maxEntryDecimals, "setPrimaryToSecondary", TRUE)

onSecondaryChangeText(os, st, p, value) ==
  IF os = "ios" THEN Result(st, << >>, TRUE)
  ELSE IF MatchesNonDigit(value) THEN Result(st, << >>, TRUE)
  ELSE onKeyPress(st, p, LastChar(value), st.secondaryDecimalAmount,
                  p.secondaryInfo.maxEntryDecimals, "setSecondaryToPrimary", TRUE)

\* the for loop of handlePasteClipboard: every setState is applied before the
\* next character reads this.state; a throw ends the loop
RECURSIVE ReplayKeys(_, _, _, _)
ReplayKeys(cur, p, chars, live) ==
  IF chars = << >> \/ ~cur.ok THEN cur
  ELSE LET r == IF cur.state.isToggled
                THEN onKeyPress(cur.state, p, <<Head(chars)>>,
                                cur.state.secondaryDecimalAmount,
                                p.secondaryInfo.maxEntryDecimals, "setSecondaryToPrimary", live)
                ELSE onKeyPress(cur.state, p, <<Head(chars)>>,
                                cur.state.primaryDecimalAmount,
                                p.primaryInfo.maxEntryDecimals, "setPrimaryToSecondary", live)
       IN  ReplayKeys(Result(r.state, cur.calls \o r.calls, r.ok), p, Tail(chars), live)

\* mutant: the characters are replayed against the primary side whichever side is active
pasteClipboard_PrimarySide(st, p, clipboard, live) ==
  LET r == ReplayKeys(setStateAmounts([st EXCEPT !.isToggled = FALSE], p, << >>,
                                      "setSecondaryToPrimary", live),
                      p, clipboard, live)
  IN  Result([r.state EXCEPT !.isToggled = st.isToggled], r.calls, r.ok)

\* the try block of handlePasteClipboard after the clipboard has been read
pasteClipboard(st, p, clipboard, live) ==
  ReplayKeys(setStateAmounts(st, p, << >>, "setSecondaryToPrimary", live),
             p, clipboard, live)

ActiveDecimalAmount(st) ==
  IF st.isToggled THEN st.secondaryDecimalAmount ELSE st.primaryDecimalAmount

\* mutant: the toggle also blanks the secondary display, as the mount-time flip does
onToggleFlipInput_DisplayCleared(st) ==
  [st EXCEPT !.isToggled = ~st.isToggled, !.secondaryDisplayAmount = << >>]

\* the state change of onToggleFlipInput
onToggleFlipInput(st) == [st EXCEPT !.isToggled = ~st.isToggled]

(***************************************************************************)
(* SendScene.js: SendComponent.submit                                      *)
(*                                                                         *)
(* submit is an async function: it runs from its call to its first await,  *)
(* and from the settling of an awaited promise to the next await or to its *)
(* end.  The calls it makes on its props and on the modal services are kept *)
(* in order in trace.                                                      *)
(***************************************************************************)
FIO_STR == "FIO"

FIO_NO_BUNDLED_ERR_CODE == "FIO_NO_BUNDLED_ERR_CODE"

\* e.code of what checkRecordSendFee rejects with: the no-bundled-transactions
\* code, another code, or an error without a code
ErrorCodes == {FIO_NO_BUNDLED_ERR_CODE, "OTHER", "undefined"}

\* what Airship.show resolves to: a button, or undefined for a dismissed modal
Answers == {"ok", "cancel", "undefined"}

\* a call made by submit; fioSender and wallet tell which arguments
\* signBroadcastAndSave was given, skipRecord is fioSender.skipRecord then
Call(fn, flag, fioSender, skipRecord, wallet) ==
  [fn |-> fn, flag |-> flag, fioSender |-> fioSender, skipRecord |-> skipRecord,
   wallet |-> wallet]

UpdateSpendPendingCall(pending) == Call("updateSpendPending", pending, FALSE, FALSE, FALSE)

ShowModalCall == Call("Airship.show", FALSE, FALSE, FALSE, FALSE)

ShowErrorCall == Call("showError", FALSE, FALSE, FALSE, FALSE)

\* signBroadcastAndSave(fioSender) and signBroadcastAndSave(fioSender, walletId, code)
SignFioCall(sc, wallet) ==
  Call("signBroadcastAndSave", FALSE, TRUE, sc.fioSender.skipRecord, wallet)

\* signBroadcastAndSave(undefined, selectedWalletId, selectedCurrencyCode)
SignPlainCall == Call("signBroadcastAndSave", FALSE, FALSE, FALSE, TRUE)

\* every SendComponent the model constructs: guiMakeSpendInfo may be undefined
\* (defined = FALSE), fioWallet and fioAddress tell whether state.fioSender
\* holds a wallet and a nonempty address; feeCheck and answer keep how
\* checkRecordSendFee and the modal of the running submit settled
SendScenes ==
  [guiMakeSpendInfo : [defined : BOOLEAN, isSendUsingFioAddress : BOOLEAN,
                       fioPendingRequest : BOOLEAN],
   selectedCurrencyCode : {"BTC", FIO_STR},
   fioSender : [fioWallet : BOOLEAN, fioAddress : BOOLEAN, skipRecord : {FALSE}],
   loading : {FALSE},
   pending : {FALSE},
   pc : {"constructed"},
   feeCheck : {"none"},
   answer : {"none"},
   trace : {<< >>}]

\* submit from its call to the first await or to its end
submit(sc) ==
  LET started == [sc EXCEPT !.loading = TRUE, !.trace = << >>,
                            !.feeCheck = "none", !.answer = "none"]
      info == sc.guiMakeSpendInfo
  IN  IF info.defined /\ (info.isSendUsingFioAddress \/ info.fioPendingRequest)
      THEN IF sc.fioSender.fioWallet /\ sc.fioSender.fioAddress /\ ~info.fioPendingRequest
           THEN [started EXCEPT !.pending = TRUE,
                                !.trace = <<UpdateSpendPendingCall(TRUE)>>,
                                !.pc = "checkRecordSendFee"]
           ELSE [started EXCEPT !.trace = <<SignFioCall(sc, FALSE)>>,
                                !.pc = "returned"]
      ELSE [started EXCEPT !.trace = <<SignPlainCall>>,
                           !.loading = FALSE,
                           !.pc = "returned"]

\* mutant: the fee check that succeeded sends without clearing the pending flag
submitFeeChecked_StillPending(sc) ==
  [sc EXCEPT !.feeCheck = "resolved",
             !.trace = @ \o <<SignFioCall(sc, FALSE)>>,
             !.pc = "returned"]

\* checkRecordSendFee resolved
submitFeeChecked(sc) ==
  [sc EXCEPT !.feeCheck = "resolved",
             !.pending = FALSE,
             !.trace = @ \o <<UpdateSpendPendingCall(FALSE), SignFioCall(sc, FALSE)>>,
             !.pc = "returned"]

\* checkRecordSendFee rejected with an error of this code: the catch block
submitFeeFailed(sc, code) ==
  LET caught == [sc EXCEPT !.feeCheck = code,
                           !.pending = FALSE,
                           !.trace = @ \o <<UpdateSpendPendingCall(FALSE)>>]
  IN  IF code # "undefined" /\ code = FIO_NO_BUNDLED_ERR_CODE
         /\ sc.selectedCurrencyCode # FIO_STR
      THEN [caught EXCEPT !.trace = @ \o <<ShowModalCall>>, !.pc = "Airship.show"]
      ELSE [caught EXCEPT !.trace = @ \o <<ShowErrorCall>>,
                          !.pc = "returned"]

\* mutant: the send goes out whatever the user answers
submitAnswered_AnyAnswer(sc, answer) ==
  LET skipped == [sc EXCEPT !.answer = answer, !.fioSender.skipRecord = TRUE]
  IN  [skipped EXCEPT !.trace = @ \o <<SignFioCall(skipped, TRUE)>>,
                      !.pc = "returned"]

\* the modal resolved with this answer
submitAnswered(sc, answer) ==
  IF answer = "ok"
  THEN LET skipped == [sc EXCEPT !.answer = answer, !.fioSender.skipRecord = TRUE]
       IN  [skipped EXCEPT !.trace = @ \o <<SignFioCall(skipped, TRUE)>>,
                           !.pc = "returned"]
  ELSE [sc EXCEPT !.answer = answer, !.pc = "returned"]

\* the slider is slid to its end; it takes no slide while a submit is running
Submit ==
  /\ sendScene.pc \in {"constructed", "returned"}
  /\ sendScene' = submit(sendScene)
  /\ UNCHANGED <<flipVars, txDetails>>

FeeCheckResolves ==
  /\ sendScene.pc = "checkRecordSendFee"
  /\ sendScene' = submitFeeChecked(sendScene)
  /\ UNCHANGED <<flipVars, txDetails>>

FeeCheckRejects ==
  /\ sendScene.pc = "checkRecordSendFee"
  /\ \E code \in ErrorCodes : sendScene' = submitFeeFailed(sendScene, code)
  /\ UNCHANGED <<flipVars, txDetails>>

ModalAnswers ==
  /\ sendScene.pc = "Airship.show"
  /\ \E answer \in Answers : sendScene' = submitAnswered(sendScene, answer)
  /\ UNCHANGED <<flipVars, txDetails>>

\* a scene without a send form
NoSendScene ==
  [guiMakeSpendInfo |-> [defined |-> FALSE, isSendUsingFioAddress |-> FALSE,
                         fioPendingRequest |-> FALSE],
   selectedCurrencyCode |-> "BTC",
   fioSender |-> [fioWallet |-> FALSE, fioAddress |-> FALSE, skipRecord |-> FALSE],
   loading |-> FALSE,
   pending |-> FALSE,
   pc |-> "constructed",
   feeCheck |-> "none",
   answer |-> "none",
   trace |-> << >>]

(***************************************************************************)
(* SendScene.js: TransactionDetailsComponent                               *)
(*                                                                         *)
(* A JavaScript number is kept as its sign, the digits of its integer part *)
(* without leading zeros (none for zero) and the digits of its fraction    *)
(* without trailing zeros; NaN and undefined are values of their own.      *)
(***************************************************************************)
MaxFiatLen == 3

\* the characters the fiat amount field is fed
FiatChars == {"0", "1", ",", ".", "-", "a"}

RECURSIVE StripTrailingZeros(_)
StripTrailingZeros(s) ==
  IF s # << >> /\ s[Len(s)] = "0" THEN StripTrailingZeros(DropLast(s)) ELSE s

JsNumber(neg, int, frac) ==
  [kind |-> "number", neg |-> neg, int |-> StripZeros(int),
   frac |-> StripTrailingZeros(frac)]

JsNaN == [kind |-> "NaN", neg |-> FALSE, int |-> << >>, frac |-> << >>]

JsUndefined == [kind |-> "undefined", neg |-> FALSE, int |-> << >>, frac |-> << >>]

\* the literal 0.0
JsZero == JsNumber(FALSE, << >>, << >>)

\* value === 0: the negative zero is zero too
IsZero(value) == value.kind = "number" /\ value.int = << >> /\ value.frac = << >>

\* the truthiness of a number: not undefined, not NaN, not zero
Truthy(value) == value.kind = "number" /\ ~IsZero(value)

\* the longest run of decimal digits a string starts with
RECURSIVE DigitPrefix(_)
DigitPrefix(s) ==
  IF s # << >> /\ IsDigit(s[1]) THEN <<s[1]>> \o DigitPrefix(Drop(s, 1)) ELSE << >>

\* the string without its leading white space
RECURSIVE TrimStart(_)
TrimStart(s) == IF s # << >> /\ s[1] = " " THEN TrimStart(Drop(s, 1)) ELSE s

\* Number.parseFloat: the longest prefix of the trimmed string that is a
\* decimal literal (sign, digits, period, digits), NaN when there is none;
\* what follows the literal is ignored (FiatChars holds no exponent letter)
parseFloat(s) ==
  LET trimmed == TrimStart(s)
      neg == trimmed # << >> /\ trimmed[1] = "-"
      signed == trimmed # << >> /\ (trimmed[1] = "-" \/ trimmed[1] = "+")
      body == IF signed THEN Drop(trimmed, 1) ELSE trimmed
      int == DigitPrefix(body)
      rest == Drop(body, Len(int))
      frac == IF rest # << >> /\ rest[1] = "." THEN DigitPrefix(Drop(rest, 1)) ELSE << >>
  IN  IF int = << >> /\ frac = << >> THEN JsNaN ELSE JsNumber(neg, int, frac)

\* Number.prototype.toFixed(2) of a number whose third fractional digit, if
\* any, is below five (the digits of FiatChars are 0 and 1)
toFixed2(value) ==
  (IF value.neg /\ ~IsZero(value) THEN <<"-">> ELSE << >>)
    \o (IF value.int = << >> THEN <<"0">> ELSE value.int)
    \o <<".">> \o Take(value.frac \o <<"0", "0">>, 2)

\* bns.abs of a decimal string
bnsAbs(s) == IF s # << >> /\ s[1] = "-" THEN Drop(s, 1) ELSE s

\* initalizeAmountBalance: the text the amount field starts with;
\* bns.toFixed(x, 2, 2) and formatNumber without grouping leave a string of
\* two decimals as it is
initalizeAmountBalance(metadata) ==
  IF metadata.defined /\ Truthy(metadata.amountFiat)
  THEN bnsAbs(toFixed2(metadata.amountFiat))
  ELSE <<"0", ".", "0", "0">>

\* edgeTransaction.metadata: undefined, or an object with its amountFiat
Metadata(defined, amountFiat) == [defined |-> defined, amountFiat |-> amountFiat]

\* the metadata of the transactions the scene is opened on
Metadatas ==
  {Metadata(FALSE, JsUndefined), Metadata(TRUE, JsUndefined), Metadata(TRUE, JsZero),
   Metadata(TRUE, JsNumber(FALSE, <<"1">>, << >>)),
   Metadata(TRUE, JsNumber(TRUE, <<"1">>, <<"1">>))}

\* the constructor of TransactionDetailsComponent
TxDetails(metadata) ==
  [amountFiat |-> initalizeAmountBalance(metadata),
   metadata |-> metadata,
   op |-> "constructor",
   saved |-> JsUndefined]

\* finalAmountFiat of onSaveTxDetails
finalAmountFiat(amountFiat, metadata) ==
  LET decimalAmountFiat == parseFloat(ReplaceFirst(amountFiat, ",", "."))
  IN  IF decimalAmountFiat.kind = "NaN"
      THEN IF metadata.defined THEN metadata.amountFiat ELSE JsZero
      ELSE IF amountFiat = << >> THEN JsZero ELSE decimalAmountFiat

\* onSaveTxDetails: the metadata object is replaced on props.edgeTransaction
\* and handed to setTransactionDetails (saved)
onSaveTxDetails(tx) ==
  LET final == finalAmountFiat(tx.amountFiat, tx.metadata)
  IN  [tx EXCEPT !.metadata = Metadata(TRUE, final),
                 !.saved = final,
                 !.op = "onSaveTxDetails"]

\* onChangeFiat
onChangeFiat(tx, amountFiat) == [tx EXCEPT !.amountFiat = amountFiat, !.op = "onChangeFiat"]

\* the amount field is edited a character at a time
ChangeFiat ==
  /\ \E amountFiat \in {DropLast(txDetails.amountFiat)}
                       \cup {txDetails.amountFiat \o <<c>> : c \in FiatChars} :
       /\ amountFiat # txDetails.amountFiat
       /\ Len(amountFiat) <= Max(MaxFiatLen, Len(txDetails.amountFiat) - 1)
       /\ txDetails' = onChangeFiat(txDetails, amountFiat)
  /\ UNCHANGED <<flipVars, sendScene>>

\* the save button is pressed
SaveTxDetails ==
  /\ txDetails' = onSaveTxDetails(txDetails)
  /\ UNCHANGED <<flipVars, sendScene>>

\* a scene without transaction details
NoTxDetails == TxDetails(Metadata(FALSE, JsUndefined))

(***************************************************************************)
(* Construction                                                            *)
(***************************************************************************)
\* every props record of the model
FieldInfo(currencyCode, maxEntryDecimals, maxConversionDecimals) ==
  [currencyCode |-> currencyCode,
   maxEntryDecimals |-> maxEntryDecimals,
   maxConversionDecimals |-> maxConversionDecimals]

AllProps ==
  [overridePrimaryDecimalAmount : Overrides,
   forceUpdateGuiCounter : 0..MaxCounter,
   exchangeSecondaryToPrimaryRatio : Ratios,
   primaryInfo : {FieldInfo(c, PrimaryMaxEntryDecimals, PrimaryMaxConversionDecimals) :
                    c \in CurrencyCodes},
   secondaryInfo : {FieldInfo("USD", SecondaryMaxEntryDecimals,
                              SecondaryMaxConversionDecimals)},
   isEditable : BOOLEAN,
   isFiatOnTop : BOOLEAN,
   isFocus : BOOLEAN]

PlatformOS == {"ios", "android"}

\* the constructor, for a parent that passes props of the set P, on a device
\* of a platform of the set OS
InitOn(P, OS) ==
  /\ props \in P
  /\ platformOS \in OS
  /\ sendScene = NoSendScene
  /\ txDetails = NoTxDetails
  /\ state = getInitialState(props)
  /\ phase = "constructed"
  /\ timers = {}
  /\ resetTimers = 0
  /\ menuOpen = FALSE
  /\ pasteReads = 0
  /\ fault = FALSE
  /\ lastOp = Op("constructor", << >>)
  /\ calls = << >>
  /\ errors = 0

\* on iOS every key goes through the key-press handlers alone
InitIn(P) == InitOn(P, {"ios"})

Mounted == phase = "mounted" /\ ~fault

\* a handler that ran to its end or threw: the state it leaves and its calls
Finish(r, op) ==
  /\ state' = r.state
  /\ calls' = r.calls
  /\ fault' = ~r.ok
  /\ errors' = 0
  /\ lastOp' = op

(***************************************************************************)
(* Lifecycle                                                               *)
(***************************************************************************)
componentDidMount ==
  /\ phase = "constructed"
  /\ phase' = "mounted"
  /\ timers' = {"focus400"}
                 \cup (IF props.isFiatOnTop THEN {"clear10"} ELSE {})
                 \cup (IF props.isFocus THEN {"focus650"} ELSE {})
  /\ state' = IF props.isFiatOnTop
              THEN [state EXCEPT !.isToggled = ~state.isToggled]
              ELSE state
  /\ lastOp' = Op("componentDidMount", << >>)
  /\ calls' = << >>
  /\ errors' = 0
  /\ UNCHANGED <<sendScene, txDetails, platformOS, props, resetTimers, menuOpen, pasteReads, fault>>

\* React detaches the refs (textInputFront, textInputBack, clipboardMenu);
\* the component has no componentWillUnmount and clears no timer
Unmount ==
  /\ Mounted
  /\ phase' = "unmounted"
  /\ menuOpen' = FALSE
  /\ lastOp' = Op("unmount", << >>)
  /\ calls' = << >>
  /\ errors' = 0
  /\ UNCHANGED <<sendScene, txDetails, platformOS, props, state, timers, resetTimers, pasteReads, fault>>

\* mutant: the reset does not store the new counter
receiveProps_CounterNotStored(st, nextProps) ==
  IF \/ nextProps.overridePrimaryDecimalAmount # st.overridePrimaryDecimalAmount
     \/ nextProps.forceUpdateGuiCounter # st.forceUpdateGuiCounter
  THEN LET result == setPrimaryToSecondary(nextProps,
                       sanitizeDecimalAmount(nextProps.overridePrimaryDecimalAmount,
                                             nextProps.primaryInfo.maxEntryDecimals))
       IN  Result([Merge(st, result.amounts) EXCEPT
                     !.overridePrimaryDecimalAmount = nextProps.overridePrimaryDecimalAmount],
                  << >>, TRUE)
  ELSE LET result == IF ~st.isToggled
                     THEN setPrimaryToSecondary(nextProps, st.primaryDecimalAmount)
                     ELSE setSecondaryToPrimary(nextProps, st.secondaryDecimalAmount)
       IN  IF result.ok THEN Result(Merge(st, result.amounts), << >>, TRUE)
           ELSE Result(st, << >>, FALSE)

receiveProps(st, nextProps) ==
  IF \/ nextProps.overridePrimaryDecimalAmount # st.overridePrimaryDecimalAmount
     \/ nextProps.forceUpdateGuiCounter # st.forceUpdateGuiCounter
  THEN LET result == setPrimaryToSecondary(nextProps,
                       sanitizeDecimalAmount(nextProps.overridePrimaryDecimalAmount,
                                             nextProps.primaryInfo.maxEntryDecimals))
       IN  Result([Merge(st, result.amounts) EXCEPT
                     !.overridePrimaryDecimalAmount = nextProps.overridePrimaryDecimalAmount,
                     !.forceUpdateGuiCounter = nextProps.forceUpdateGuiCounter],
                  << >>, TRUE)
  ELSE LET result == IF ~st.isToggled
                     THEN setPrimaryToSecondary(nextProps, st.primaryDecimalAmount)
                     ELSE setSecondaryToPrimary(nextProps, st.secondaryDecimalAmount)
       IN  IF result.ok THEN Result(Merge(st, result.amounts), << >>, TRUE)
           ELSE Result(st, << >>, FALSE)

\* a FieldInfo is immutable for a pairing: a new one differs in the currency only
SameBounds(info, nextInfo) ==
  /\ nextInfo.maxEntryDecimals = info.maxEntryDecimals
  /\ nextInfo.maxConversionDecimals = info.maxConversionDecimals

\* UNSAFE_componentWillReceiveProps(nextProps), for a parent that passes props
\* of the set P: isFiatOnTop and isFocus are read at mount only, the counter
\* never decreases; a throw unmounts the tree and the new props are not committed
componentWillReceivePropsIn(P) ==
  /\ Mounted
  /\ \E nextProps \in P :
       LET schedule == nextProps.primaryInfo.currencyCode # props.primaryInfo.currencyCode
       IN  /\ nextProps.isFiatOnTop = props.isFiatOnTop
           /\ nextProps.isFocus = props.isFocus
           /\ nextProps.forceUpdateGuiCounter >= props.forceUpdateGuiCounter
           /\ SameBounds(props.primaryInfo, nextProps.primaryInfo)
           /\ SameBounds(props.secondaryInfo, nextProps.secondaryInfo)
           /\ schedule => resetTimers < MaxResetTimers
           /\ \E r \in {receiveProps(state, nextProps)} :
                /\ Finish(r, Op("props", << >>))
                /\ props' = IF r.ok THEN nextProps ELSE props
                /\ resetTimers' = IF schedule /\ r.ok THEN resetTimers + 1 ELSE resetTimers
  /\ UNCHANGED <<sendScene, txDetails, platformOS, phase, timers, menuOpen, pasteReads>>

(***************************************************************************)
(* Timers                                                                  *)
(***************************************************************************)
\* the 10 ms timer of componentDidMount
TimerClear10 ==
  /\ ~fault
  /\ "clear10" \in timers
  /\ timers' = timers \ {"clear10"}
  /\ state' = IF phase = "mounted"
              THEN [state EXCEPT !.secondaryDisplayAmount = << >>]
              ELSE state
  /\ lastOp' = Op("timer10", << >>)
  /\ calls' = << >>
  /\ errors' = 0
  /\ UNCHANGED <<sendScene, txDetails, platformOS, props, phase, resetTimers, menuOpen, pasteReads, fault>>

\* the 400 ms timer: only focuses the front input
TimerFocus400 ==
  /\ ~fault
  /\ "focus400" \in timers /\ "clear10" \notin timers
  /\ timers' = timers \ {"focus400"}
  /\ UNCHANGED state
  /\ lastOp' = Op("timer400", << >>)
  /\ calls' = << >>
  /\ errors' = 0
  /\ UNCHANGED <<sendScene, txDetails, platformOS, props, phase, resetTimers, menuOpen, pasteReads, fault>>

\* mutant: the timer toggles back to the primary face whatever the ratio is
TimerFocus650_AlwaysBack ==
  /\ ~fault
  /\ "focus650" \in timers /\ "clear10" \notin timers /\ "focus400" \notin timers
  /\ timers' = timers \ {"focus650"}
  /\ IF state.isToggled
     THEN IF phase = "mounted"
          THEN /\ state' = onToggleFlipInput(state)
               /\ menuOpen' = FALSE
               /\ fault' = FALSE
          ELSE /\ fault' = TRUE
               /\ UNCHANGED <<state, menuOpen>>
     ELSE UNCHANGED <<state, menuOpen, fault>>
  /\ lastOp' = Op("timer650", << >>)
  /\ calls' = << >>
  /\ errors' = 0
  /\ UNCHANGED <<sendScene, txDetails, platformOS, props, phase, resetTimers, pasteReads>>

\* the 650 ms timer: focuses an input, or toggles back to the primary face
\* when the ratio is zero or empty; onToggleFlipInput dereferences
\* this.clipboardMenu, which is null once the widget is unmounted
TimerFocus650 ==
  /\ ~fault
  /\ "focus650" \in timers /\ "clear10" \notin timers /\ "focus400" \notin timers
  /\ timers' = timers \ {"focus650"}
  /\ LET ratio == props.exchangeSecondaryToPrimaryRatio
     IN  IF state.isToggled /\ (bnsEq(ratio, <<"0">>) \/ ratio = << >>)
         THEN IF phase = "mounted"
              THEN /\ state' = onToggleFlipInput(state)
                   /\ menuOpen' = FALSE
                   /\ fault' = FALSE
              ELSE /\ fault' = TRUE
                   /\ UNCHANGED <<state, menuOpen>>
         ELSE UNCHANGED <<state, menuOpen, fault>>
  /\ lastOp' = Op("timer650", << >>)
  /\ calls' = << >>
  /\ errors' = 0
  /\ UNCHANGED <<sendScene, txDetails, platformOS, props, phase, resetTimers, pasteReads>>

\* mutant: the reset is applied to the instance whether or not it is mounted
TimerReset50_AlwaysApplied ==
  /\ ~fault
  /\ resetTimers > 0
  /\ resetTimers' = resetTimers - 1
  /\ \E r \in {onKeyPress(state, props, <<"0">>, << >>,
                          props.primaryInfo.maxEntryDecimals, "setPrimaryToSecondary", TRUE)} :
       Finish(r, Op("timer50", << >>))
  /\ UNCHANGED <<sendScene, txDetails, platformOS, props, phase, timers, menuOpen, pasteReads>>

\* mutant: the reset appends its "0" to the primary accumulator
TimerReset50_AppendsZero ==
  /\ ~fault
  /\ resetTimers > 0
  /\ resetTimers' = resetTimers - 1
  /\ \E r \in {onKeyPress(state, props, <<"0">>, state.primaryDecimalAmount,
                          props.primaryInfo.maxEntryDecimals, "setPrimaryToSecondary",
                          phase = "mounted")} :
       Finish(r, Op("timer50", << >>))
  /\ UNCHANGED <<sendScene, txDetails, platformOS, props, phase, timers, menuOpen, pasteReads>>

\* the 50 ms timer of UNSAFE_componentWillReceiveProps
TimerReset50 ==
  /\ ~fault
  /\ resetTimers > 0
  /\ resetTimers' = resetTimers - 1
  /\ \E r \in {onKeyPress(state, props, <<"0">>, << >>,
                          props.primaryInfo.maxEntryDecimals, "setPrimaryToSecondary", phase = "mounted")} :
       Finish(r, Op("timer50", << >>))
  /\ UNCHANGED <<sendScene, txDetails, platformOS, props, phase, timers, menuOpen, pasteReads>>

(***************************************************************************)
(* User events                                                             *)
(***************************************************************************)
ToggleFlipInput ==
  /\ Mounted
  /\ state' = onToggleFlipInput(state)
  /\ menuOpen' = FALSE
  /\ lastOp' = Op("toggle", << >>)
  /\ calls' = << >>
  /\ errors' = 0
  /\ UNCHANGED <<sendScene, txDetails, platformOS, props, phase, timers, resetTimers, pasteReads, fault>>

\* onKeyPress of the hidden TextInput of the face that is shown
TextInputKeyPress(os, st, p, key) ==
  IF st.isToggled THEN onSecondaryKeyPress(os, st, p, key)
  ELSE onPrimaryKeyPress(os, st, p, key)

\* onChangeText of the TextInput of that face
TextInputChangeText(os, toggled, st, p, value) ==
  IF toggled THEN onSecondaryChangeText(os, st, p, value)
  ELSE onPrimaryChangeText(os, st, p, value)

\* a key of the set K reaches the TextInput of the face that is shown: its
\* onKeyPress with the key, then, for a key that is a character, its
\* onChangeText with the text the key leaves in a field whose value is always "";
\* a TextInput with editable = false delivers none
KeyPressIn(K) ==
  /\ Mounted
  /\ props.isEditable
  /\ \E key \in K :
       /\ key # Backspace => Len(ActiveDecimalAmount(state)) < MaxLen
       /\ \E pressed \in {TextInputKeyPress(platformOS, state, props, key)} :
            IF ~pressed.ok \/ Len(key) # 1
            THEN Finish(pressed, Op("key", key))
            ELSE \E changed \in {TextInputChangeText(platformOS, state.isToggled,
                                                     pressed.state, props, key)} :
                   Finish(Result(changed.state, pressed.calls \o changed.calls, changed.ok),
                          Op("key", key))
  /\ UNCHANGED <<sendScene, txDetails, platformOS, props, phase, timers, resetTimers, menuOpen, pasteReads>>

KeyPress == KeyPressIn(Keys)

\* openClipboardMenu: a press on the top row of a focused input opens the
\* popup menu when the clipboard holds text, and reports a failed read; an
\* input takes the focus only while it is editable
openClipboardMenu ==
  /\ Mounted
  /\ props.isEditable
  /\ \E clipboard \in {"text", "empty", "error"} :
       /\ menuOpen' = (clipboard = "text")
       /\ errors' = IF clipboard = "error" THEN 1 ELSE 0
  /\ lastOp' = Op("openClipboardMenu", << >>)
  /\ calls' = << >>
  /\ UNCHANGED <<sendScene, txDetails, platformOS, props, state, phase, timers, resetTimers, pasteReads, fault>>

(***************************************************************************)
(* Clipboard paste                                                         *)
(***************************************************************************)
\* the Paste option is selected: handlePasteClipboard runs up to its await
PasteRequest ==
  /\ Mounted
  /\ menuOpen
  /\ pasteReads < MaxPasteReads
  /\ pasteReads' = pasteReads + 1
  /\ menuOpen' = FALSE
  /\ lastOp' = Op("pasteRequest", << >>)
  /\ calls' = << >>
  /\ errors' = 0
  /\ UNCHANGED <<sendScene, txDetails, platformOS, props, state, phase, timers, resetTimers, fault>>

\* Clipboard.getString() resolves; a throw in the try block goes to showError
PasteResolve ==
  /\ ~fault
  /\ pasteReads > 0
  /\ pasteReads' = pasteReads - 1
  /\ \E clipboard \in Clipboards :
       \E r \in {pasteClipboard(state, props, clipboard,
                                phase = "mounted")} :
           /\ state' = r.state
           /\ calls' = r.calls
           /\ errors' = IF r.ok THEN 0 ELSE 1
           /\ lastOp' = Op("paste", clipboard)
  /\ UNCHANGED <<sendScene, txDetails, platformOS, props, phase, timers, resetTimers, menuOpen, fault>>

\* mutant: the active accumulator is cleared before the clipboard is read
PasteReject_ClearedFirst ==
  /\ ~fault
  /\ pasteReads > 0
  /\ pasteReads' = pasteReads - 1
  /\ errors' = 1
  /\ calls' = << >>
  /\ lastOp' = Op("pasteError", << >>)
  /\ state' = setStateAmounts(state, props, << >>,
                              "setSecondaryToPrimary", phase = "mounted").state
  /\ UNCHANGED <<sendScene, txDetails, platformOS, props, phase, timers, resetTimers, menuOpen, fault>>

\* Clipboard.getString() rejects
PasteReject ==
  /\ ~fault
  /\ pasteReads > 0
  /\ pasteReads' = pasteReads - 1
  /\ errors' = 1
  /\ calls' = << >>
  /\ lastOp' = Op("pasteError", << >>)
  /\ UNCHANGED <<sendScene, txDetails, platformOS, props, state, phase, timers, resetTimers, menuOpen, fault>>

(***************************************************************************)
(* Specifications.  The parent's props are independent dimensions; each    *)
(* specification lets the parent vary some of them and fixes the others.   *)
(***************************************************************************)
\* the conversion engine: an editable widget of one currency, primary face up,
\* whose parent changes the override, the counter and the ratio
EngineProps ==
  {p \in AllProps : /\ p.isEditable
                    /\ p.primaryInfo.currencyCode = "BTC"
                    /\ ~p.isFiatOnTop /\ ~p.isFocus}

Init == InitIn(EngineProps)

componentWillReceiveProps == componentWillReceivePropsIn(EngineProps)

Next ==
  \/ componentDidMount
  \/ componentWillReceiveProps
  \/ ToggleFlipInput
  \/ KeyPress

Spec == Init /\ [][Next]_vars

\* editing and pasting: the parent also switches the widget between editable
\* and read-only, the user also opens the clipboard menu and pastes
PasteProps ==
  {p \in AllProps : /\ p.primaryInfo.currencyCode = "BTC"
                    /\ p.forceUpdateGuiCounter = 0
                    /\ ~p.isFiatOnTop /\ ~p.isFocus}

InitPaste == InitIn(PasteProps)

componentWillReceivePropsPaste == componentWillReceivePropsIn(PasteProps)

NextPaste ==
  \/ componentDidMount
  \/ componentWillReceivePropsPaste
  \/ ToggleFlipInput
  \/ KeyPress
  \/ openClipboardMenu
  \/ PasteRequest
  \/ PasteResolve
  \/ PasteReject

SpecPaste == InitPaste /\ [][NextPaste]_vars

\* the life cycle: mount with either face up, currency changes, the timers,
\* unmount
LifeProps ==
  {p \in AllProps : /\ p.isEditable
                    /\ p.isFocus = p.isFiatOnTop
                    /\ p.forceUpdateGuiCounter = 0}

InitLife == InitIn(LifeProps)

componentWillReceivePropsLife == componentWillReceivePropsIn(LifeProps)

NextLife ==
  \/ componentDidMount
  \/ Unmount
  \/ componentWillReceivePropsLife
  \/ TimerClear10
  \/ TimerFocus400
  \/ TimerFocus650
  \/ TimerReset50
  \/ ToggleFlipInput

SpecLife == InitLife /\ [][NextLife]_vars

\* typing with a full keypad: a widget of eight entry decimals, mounted with
\* either face up, in one of two pairings,
\*   a fiat pairing: ratio "650.25", secondary conversion bound 2, no override;
\*   a token pairing: ratio "2", secondary conversion bound 8, an override or none.
\* The user types and deletes on the face that is up; the parent re-renders.
Enter == <<"E", "n", "t", "e", "r">>

\* the keys of Keys, a second digit, Enter, and the empty key that
\* onPrimaryChangeText and onSecondaryChangeText pass for an empty text
EntryKeys == Keys \cup {<<"5">>, Enter, << >>}

FiatRatio == <<"6", "5", "0", ".", "2", "5">>

TokenRatio == <<"2">>

EntryOverrides ==
  {<< >>, <<"1", ".", "2", "3", "4", "5", "6", "7", "8", "9">>, <<"1", ".", "5", "0">>}

EntryProps ==
  {p \in [overridePrimaryDecimalAmount : EntryOverrides,
          forceUpdateGuiCounter : {0},
          exchangeSecondaryToPrimaryRatio : {FiatRatio, TokenRatio},
          primaryInfo : {FieldInfo("BTC", 8, 8)},
          secondaryInfo : {FieldInfo("USD", 2, 2), FieldInfo("USD", 2, 8)},
          isEditable : {TRUE},
          isFiatOnTop : BOOLEAN,
          isFocus : {FALSE}] :
     \/ /\ p.exchangeSecondaryToPrimaryRatio = FiatRatio
        /\ p.secondaryInfo.maxConversionDecimals = 2
        /\ p.overridePrimaryDecimalAmount = << >>
     \/ /\ p.exchangeSecondaryToPrimaryRatio = TokenRatio
        /\ p.secondaryInfo.maxConversionDecimals = 8}

InitEntry == InitIn(EntryProps)

componentWillReceivePropsEntry == componentWillReceivePropsIn(EntryProps)

KeyPressEntry == KeyPressIn(EntryKeys)

NextEntry ==
  \/ componentDidMount
  \/ componentWillReceivePropsEntry
  \/ TimerClear10
  \/ KeyPressEntry

SpecEntry == InitEntry /\ [][NextEntry]_vars

\* the sanitizer: the parent passes every raw override of a digit, a comma, a
\* period and a letter, to a widget of 0, 1 or 2 entry decimals; the
\* constructor and every re-render sanitize it
SanitizeChars == {"1", ",", ".", "a"}

RawOverrides == UNION {[1..n -> SanitizeChars] : n \in 0..MaxOverrideLen}

SanitizeProps ==
  [overridePrimaryDecimalAmount : RawOverrides,
   forceUpdateGuiCounter : {0},
   exchangeSecondaryToPrimaryRatio : {TokenRatio},
   primaryInfo : {FieldInfo("BTC", n, PrimaryMaxConversionDecimals) : n \in 0..2},
   secondaryInfo : {FieldInfo("USD", SecondaryMaxEntryDecimals,
                              SecondaryMaxConversionDecimals)},
   isEditable : {TRUE},
   isFiatOnTop : {FALSE},
   isFocus : {FALSE}]

InitSanitize == InitIn(SanitizeProps)

componentWillReceivePropsSanitize == componentWillReceivePropsIn(SanitizeProps)

NextSanitize ==
  \/ componentDidMount
  \/ componentWillReceivePropsSanitize

SpecSanitize == InitSanitize /\ [][NextSanitize]_vars

\* the mount: a widget of one currency mounted with either face up, with or
\* without the focus request; the mount-time timers fire in the order of their
\* delays while the parent changes the ratio and the user toggles
MountProps ==
  {p \in AllProps : /\ p.isEditable
                    /\ p.primaryInfo.currencyCode = "BTC"
                    /\ p.forceUpdateGuiCounter = 0}

InitMount == InitIn(MountProps)

componentWillReceivePropsMount == componentWillReceivePropsIn(MountProps)

NextMount ==
  \/ componentDidMount
  \/ Unmount
  \/ componentWillReceivePropsMount
  \/ TimerClear10
  \/ TimerFocus400
  \/ TimerFocus650
  \/ ToggleFlipInput

SpecMount == InitMount /\ [][NextMount]_vars

\* the keyboard: the widget of SpecEntry's token pairing on an iOS or an
\* Android device; every key sends its events to the handlers of the face
\* that is up, and the user toggles
KeyboardKeys == Keys \cup {<<"5">>, Enter}

KeyboardProps ==
  {p \in EntryProps : /\ p.exchangeSecondaryToPrimaryRatio = TokenRatio
                      /\ p.overridePrimaryDecimalAmount = << >>}

InitKeyboard == InitOn(KeyboardProps, PlatformOS)

KeyPressKeyboard == KeyPressIn(KeyboardKeys)

NextKeyboard ==
  \/ componentDidMount
  \/ TimerClear10
  \/ ToggleFlipInput
  \/ KeyPressKeyboard

SpecKeyboard == InitKeyboard /\ [][NextKeyboard]_vars

\* the send scene: a SendComponent of every route and FIO sender, whose slider
\* is slid again after a submit has returned; no FlipInput is on the scene
\* (the amount is entered in a modal), the widget's variables stay as constructed
FlipInputAside ==
  /\ props \in {p \in EngineProps : /\ p.overridePrimaryDecimalAmount = << >>
                                     /\ p.exchangeSecondaryToPrimaryRatio = <<"0">>
                                     /\ p.forceUpdateGuiCounter = 0}
  /\ platformOS = "ios"
  /\ state = getInitialState(props)
  /\ phase = "constructed"
  /\ timers = {}
  /\ resetTimers = 0
  /\ menuOpen = FALSE
  /\ pasteReads = 0
  /\ fault = FALSE
  /\ lastOp = Op("constructor", << >>)
  /\ calls = << >>
  /\ errors = 0

InitSend ==
  /\ FlipInputAside
  /\ sendScene \in SendScenes
  /\ txDetails = NoTxDetails

NextSend ==
  \/ Submit
  \/ FeeCheckResolves
  \/ FeeCheckRejects
  \/ ModalAnswers

SpecSend == InitSend /\ [][NextSend]_vars

\* the transaction details scene, opened on a transaction of each metadata
InitDetails ==
  /\ FlipInputAside
  /\ sendScene = NoSendScene
  /\ txDetails \in {TxDetails(metadata) : metadata \in Metadatas}

NextDetails ==
  \/ ChangeFiat
  \/ SaveTxDetails

SpecDetails == InitDetails /\ [][NextDetails]_vars

(***************************************************************************)
(* Properties                                                              *)
(***************************************************************************)
Ratio == props.exchangeSecondaryToPrimaryRatio

\* a ratio that stands for an unknown rate: empty or of value zero
IsZeroRatio(ratio) == ratio = << >> \/ bnsEq(ratio, <<"0">>)

\* C1: a props update that repeats the override and the counter of the props
\* the widget last had, and changes only the ratio, leaves the decimal amount
\* of the active side unchanged.
C1_RatioTickKeepsActiveSide ==
  [][(/\ lastOp'.kind = "props"
      /\ props'.overridePrimaryDecimalAmount = props.overridePrimaryDecimalAmount
      /\ props'.forceUpdateGuiCounter = props.forceUpdateGuiCounter
      /\ props'.exchangeSecondaryToPrimaryRatio # props.exchangeSecondaryToPrimaryRatio)
     => ActiveDecimalAmount(state') = ActiveDecimalAmount(state)]_vars

\* the conversions, written out from the arithmetic
SecondaryFromPrimary(ratio, primaryDecimalAmount) ==
  utilsTruncateDecimals(bnsMul(primaryDecimalAmount, ratio),
                        props.secondaryInfo.maxConversionDecimals)

PrimaryFromSecondaryDefined(ratio, secondaryDecimalAmount) ==
  ratio = <<"0">> \/ bnsDiv(secondaryDecimalAmount, ratio, DIVIDE_PRECISION).ok

PrimaryFromSecondary(ratio, secondaryDecimalAmount) ==
  IF ratio = <<"0">> THEN <<"0">>
  ELSE utilsTruncateDecimals(bnsDiv(secondaryDecimalAmount, ratio, DIVIDE_PRECISION).value,
                             props.primaryInfo.maxConversionDecimals)

SecondaryIsDerived ==
  state.secondaryDecimalAmount = SecondaryFromPrimary(Ratio, state.primaryDecimalAmount)

PrimaryIsDerived ==
  /\ PrimaryFromSecondaryDefined(Ratio, state.secondaryDecimalAmount)
  /\ state.primaryDecimalAmount = PrimaryFromSecondary(Ratio, state.secondaryDecimalAmount)

\* the pair has been populated
Populated == state.primaryDecimalAmount # << >> \/ state.secondaryDecimalAmount # << >>

\* C2 as stated: in every populated state the side that is not active is
\* derived from the active side under the current ratio, the primary amount
\* being "0" for a zero ratio.
C2_InactiveDerivedFromActive ==
  (Populated /\ ~fault)
    => IF state.isToggled
       THEN IF IsZeroRatio(Ratio) THEN state.primaryDecimalAmount = <<"0">>
            ELSE PrimaryIsDerived
       ELSE SecondaryIsDerived

\* C2 amended: in every populated state one of the two sides is derived from
\* the other under the current ratio, and right after an accepted keystroke it
\* is the side that is not active; a toggle leaves both amounts as they are.
C2_OneSideDerived ==
  (Populated /\ ~fault)
    => /\ SecondaryIsDerived \/ PrimaryIsDerived
       /\ (lastOp.kind = "key" /\ calls # << >>)
            => IF state.isToggled THEN PrimaryIsDerived ELSE SecondaryIsDerived

\* after a toggle the newly active primary side is the derived one, and the
\* secondary side is not its conversion
C2_Witness ==
  /\ lastOp.kind = "toggle"
  /\ ~state.isToggled
  /\ state.secondaryDecimalAmount = <<"1", ".", "1">>
  /\ PrimaryIsDerived
  /\ ~SecondaryIsDerived

\* the key is one the accumulator accepts: Backspace, a digit, or a period or
\* comma when the accumulator holds no period
AcceptedKey(key, decimalAmount) ==
  \/ key = Backspace
  \/ Len(key) = 1 /\ IsDigit(key[1])
  \/ key \in {<<".">>, <<",">>} /\ ~Includes(decimalAmount, ".")

\* C3: an accepted key invokes onAmountChanged exactly once, with the primary
\* decimal amount the key produced; a rejected key does not invoke it.
C3_CallbackCardinality ==
  [][lastOp'.kind = "key"
     => IF AcceptedKey(lastOp'.key, ActiveDecimalAmount(state))
        THEN calls' = <<state'.primaryDecimalAmount>>
        ELSE calls' = << >>]_vars

\* the four amounts of a state
AmountPair(st) ==
  <<st.primaryDecimalAmount, st.primaryDisplayAmount,
    st.secondaryDecimalAmount, st.secondaryDisplayAmount>>

\* the active accumulator cleared to empty, then each character typed in order
TypedFromEmpty(st, p, chars, live) ==
  ReplayKeys(IF st.isToggled
             THEN setStateAmounts(st, p, << >>, "setSecondaryToPrimary", live)
             ELSE setStateAmounts(st, p, << >>, "setPrimaryToSecondary", live),
             p, chars, live)

\* C4: a paste that reports no error leaves the amounts that clearing the
\* active accumulator and typing the pasted characters one by one leaves,
\* whichever side is active.
C4_PasteEqualsTyping ==
  [][(lastOp'.kind = "paste" /\ errors' = 0)
     => AmountPair(state')
          = AmountPair(TypedFromEmpty(state, props, lastOp'.key, phase = "mounted").state)]_vars

\* C5: for a zero or empty ratio, setSecondaryToPrimary returns without
\* throwing and the primary decimal amount it derives is "0".
C5_ZeroRatioYieldsZero ==
  IsZeroRatio(Ratio)
    => /\ setSecondaryToPrimary(props, state.secondaryDecimalAmount).ok
       /\ setSecondaryToPrimary(props, state.secondaryDecimalAmount).amounts.primaryDecimalAmount
            = <<"0">>

\* C6: a props update whose override or counter differs from the stored ones
\* sets the primary amount to the sanitized override, the secondary amount to
\* its conversion under the new ratio, and stores the new override and counter,
\* so that the same props do not reset again.
C6_OverrideReset ==
  [][(/\ lastOp'.kind = "props"
      /\ ~fault'
      /\ \/ props'.overridePrimaryDecimalAmount # state.overridePrimaryDecimalAmount
         \/ props'.forceUpdateGuiCounter # state.forceUpdateGuiCounter)
     => /\ state'.primaryDecimalAmount
             = sanitizeDecimalAmount(props'.overridePrimaryDecimalAmount,
                                     props'.primaryInfo.maxEntryDecimals)
        /\ state'.secondaryDecimalAmount
             = utilsTruncateDecimals(bnsMul(state'.primaryDecimalAmount,
                                            props'.exchangeSecondaryToPrimaryRatio),
                                     props'.secondaryInfo.maxConversionDecimals)
        /\ state'.overridePrimaryDecimalAmount = props'.overridePrimaryDecimalAmount
        /\ state'.forceUpdateGuiCounter = props'.forceUpdateGuiCounter
        /\ state'.isToggled = state.isToggled]_vars

\* a reset by a counter bump has happened while the secondary side is active
C6_Witness ==
  /\ lastOp.kind = "props"
  /\ state.isToggled
  /\ state.forceUpdateGuiCounter = 1
  /\ state.overridePrimaryDecimalAmount = <<"1", ",", "2", "5", "9">>
  /\ state.primaryDecimalAmount = <<"1", ".", "2", "5">>
  /\ state.secondaryDecimalAmount = <<"2", ".", "5">>

\* C8: both decimal amounts hold at most one period.
C8_SingleDecimalPoint ==
  /\ CountOf(state.primaryDecimalAmount, ".") <= 1
  /\ CountOf(state.secondaryDecimalAmount, ".") <= 1

\* a period or comma was pressed on an accumulator that holds a period
C8_Witness ==
  /\ lastOp.kind = "key"
  /\ lastOp.key \in {<<".">>, <<",">>}
  /\ calls = << >>
  /\ Includes(ActiveDecimalAmount(state), ".")

C9_FailedReadKeepsState ==
  [][lastOp'.kind = "pasteError"
     => /\ state' = state
        /\ props' = props
        /\ calls' = << >>
        /\ errors' = 1]_vars

\* a read failed while the widget held typed amounts
C9_Witness ==
  /\ lastOp.kind = "pasteError"
  /\ errors = 1
  /\ state.isToggled
  /\ state.secondaryDecimalAmount = <<"1", ".", "1">>

\* C10: while isEditable is false no keystroke and no paste changes a decimal
\* amount or invokes onAmountChanged.
C10_ReadOnlyAcceptsNoEdit ==
  [][(~props.isEditable /\ lastOp'.kind \in {"key", "paste"})
     => /\ state'.primaryDecimalAmount = state.primaryDecimalAmount
        /\ state'.secondaryDecimalAmount = state.secondaryDecimalAmount
        /\ calls' = << >>]_vars

\* the accumulator a key leaves: Backspace drops the last character, another
\* key is appended with a comma read as a period; then the entry bound applies
Accumulated(decimalAmount, key, maxEntryDecimals) ==
  IF key = Backspace THEN truncateDecimals(DropLast(decimalAmount), maxEntryDecimals)
  ELSE truncateDecimals(decimalAmount \o ReplaceFirst(key, ",", "."), maxEntryDecimals)

\* C11: an accepted key typed into the primary side sets the primary decimal
\* amount to the accumulated keys and the secondary decimal amount to the
\* product with the ratio cut, not rounded, at secondaryInfo.maxConversionDecimals;
\* with ratio "650.25" and bound 2, primary "1.5" gives secondary "975.37".
C11_PrimaryTypingConverts ==
  [][(/\ lastOp'.kind = "key"
      /\ ~state.isToggled
      /\ AcceptedKey(lastOp'.key, state.primaryDecimalAmount))
     => /\ state'.primaryDecimalAmount
             = Accumulated(state.primaryDecimalAmount, lastOp'.key,
                           props.primaryInfo.maxEntryDecimals)
        /\ state'.secondaryDecimalAmount
             = SecondaryFromPrimary(Ratio, state'.primaryDecimalAmount)
        /\ (Ratio = FiatRatio /\ state'.primaryDecimalAmount = <<"1", ".", "5">>)
             => state'.secondaryDecimalAmount = <<"9", "7", "5", ".", "3", "7">>]_vars

\* the keys "1", ".", "5" have been typed into the primary side at ratio "650.25"
C11_Witness ==
  /\ lastOp = Op("key", <<"5">>)
  /\ ~state.isToggled
  /\ Ratio = FiatRatio
  /\ state.primaryDecimalAmount = <<"1", ".", "5">>
  /\ state.secondaryDecimalAmount = <<"9", "7", "5", ".", "3", "7">>

\* a decimal numeral: digits with at most one period
IsDecimal(d) ==
  /\ \E i \in 1..Len(d) : IsDigit(d[i])
  /\ \A i \in 1..Len(d) : IsDigit(d[i]) \/ d[i] = "."
  /\ CountOf(d, ".") <= 1

\* the canonical numeral of d: no leading zeros, no trailing zeros of the
\* fraction, no trailing period, "0" for nothing
Canonical(d) ==
  LET ints == StripLeadingZeros(IF Includes(d, ".") THEN SplitIntegers(d) ELSE d)
      decs == IF Includes(d, ".") THEN TrimEnd(<<".">> \o SplitDecimals(d)) ELSE << >>
  IN  (IF ints = << >> THEN <<"0">> ELSE ints) \o decs

\* setPrimaryToSecondary, then setSecondaryToPrimary on its secondary amount
RoundTrip(p, d) ==
  setSecondaryToPrimary(p, setPrimaryToSecondary(p, d).amounts.secondaryDecimalAmount)

\* neither truncation bound cuts a digit of d or of d x ratio
WithinBounds(p, d) ==
  /\ ~IsZeroRatio(p.exchangeSecondaryToPrimaryRatio)
  /\ Scale(bnsMul(d, p.exchangeSecondaryToPrimaryRatio)) <= p.secondaryInfo.maxConversionDecimals
  /\ Scale(d) <= p.primaryInfo.maxConversionDecimals

\* C12 as stated: for a nonzero ratio and a primary decimal d that neither
\* bound cuts, the round trip returns exactly d.
C12_RoundTripExact ==
  (IsDecimal(state.primaryDecimalAmount) /\ WithinBounds(props, state.primaryDecimalAmount))
    => /\ RoundTrip(props, state.primaryDecimalAmount).ok
       /\ RoundTrip(props, state.primaryDecimalAmount).amounts.primaryDecimalAmount
            = state.primaryDecimalAmount

\* C12 amended: for a nonzero ratio and a primary amount d that neither bound
\* cuts, the round trip returns the canonical numeral of d, which is d itself
\* when d is written canonically.
C12_RoundTripCanonical ==
  WithinBounds(props, state.primaryDecimalAmount)
    => /\ RoundTrip(props, state.primaryDecimalAmount).ok
       /\ RoundTrip(props, state.primaryDecimalAmount).amounts.primaryDecimalAmount
            = Canonical(state.primaryDecimalAmount)
       /\ bnsEq(Canonical(state.primaryDecimalAmount), state.primaryDecimalAmount)

\* a re-render with the secondary side active has converted "2.46913578" back
C12_Witness ==
  /\ lastOp.kind = "props"
  /\ state.isToggled
  /\ Ratio = TokenRatio
  /\ state.overridePrimaryDecimalAmount = props.overridePrimaryDecimalAmount
  /\ state.secondaryDecimalAmount = <<"2", ".", "4", "6", "9", "1", "3", "5", "7", "8">>
  /\ state.primaryDecimalAmount = <<"1", ".", "2", "3", "4", "5", "6", "7", "8", "9">>
  /\ WithinBounds(props, state.primaryDecimalAmount)

\* C13: a toggle negates isToggled and changes nothing else of the state: the
\* decimal and display amounts and the override and counter bookkeeping are
\* kept, onAmountChanged is not invoked, and a second toggle restores isToggled.
C13_ToggleOnlyFlips ==
  [][lastOp'.kind = "toggle"
     => /\ state'.isToggled = ~state.isToggled
        /\ state'.primaryDecimalAmount = state.primaryDecimalAmount
        /\ state'.secondaryDecimalAmount = state.secondaryDecimalAmount
        /\ state'.primaryDisplayAmount = state.primaryDisplayAmount
        /\ state'.secondaryDisplayAmount = state.secondaryDisplayAmount
        /\ state'.overridePrimaryDecimalAmount = state.overridePrimaryDecimalAmount
        /\ state'.forceUpdateGuiCounter = state.forceUpdateGuiCounter
        /\ calls' = << >>
        /\ ~fault']_vars

\* a toggle to the secondary side of a widget that holds typed amounts
C13_Witness ==
  /\ lastOp.kind = "toggle"
  /\ state.isToggled
  /\ state.primaryDecimalAmount = <<"1", ".", "1">>
  /\ state.secondaryDecimalAmount = <<"2", ".", "2">>
  /\ state.secondaryDisplayAmount = <<"2", ".", "2">>

\* C14: onAmountChanged is invoked only by a keystroke, a paste or a ratio
\* change: mounting, unmounting, a toggle, every timer, and a props update
\* that changes the override or the counter make no call.
C14_CallbackOnlyOnEditOrRatio ==
  [][(\/ lastOp'.kind \in {"componentDidMount", "unmount", "toggle",
                          "timer10", "timer400", "timer650", "timer50"}
      \/ /\ lastOp'.kind = "props"
         /\ \/ props'.overridePrimaryDecimalAmount # props.overridePrimaryDecimalAmount
            \/ props'.forceUpdateGuiCounter # props.forceUpdateGuiCounter)
     => calls' = << >>]_vars

\* C15: a ratio update that re-derives the primary amount of a populated
\* widget from the active secondary side, and changes it, invokes
\* onAmountChanged with the new primary decimal amount.
C15_RatioChangeNotifies ==
  [][(/\ lastOp'.kind = "props"
      /\ ~fault'
      /\ state.isToggled
      /\ state.primaryDecimalAmount # << >>
      /\ props'.overridePrimaryDecimalAmount = state.overridePrimaryDecimalAmount
      /\ props'.forceUpdateGuiCounter = state.forceUpdateGuiCounter
      /\ props'.exchangeSecondaryToPrimaryRatio # props.exchangeSecondaryToPrimaryRatio
      /\ state'.primaryDecimalAmount # state.primaryDecimalAmount)
     => calls' = <<state'.primaryDecimalAmount>>]_vars

\* C16: a props update that changes primaryInfo.currencyCode schedules a
\* reset, and when the reset fires on the mounted widget the active decimal
\* amount is "0" and the other one is the conversion of that zero, whichever
\* side is active and whatever the amounts were.
C16_CurrencyChangeResets ==
  [][/\ (/\ lastOp'.kind = "props"
         /\ props'.primaryInfo.currencyCode # props.primaryInfo.currencyCode)
          => resetTimers' = resetTimers + 1
     /\ (lastOp'.kind = "timer50" /\ phase = "mounted")
          => /\ ~fault'
             /\ resetTimers' = resetTimers - 1
             /\ state'.isToggled = state.isToggled
             /\ ActiveDecimalAmount(state') = <<"0">>
             /\ IF state'.isToggled
                THEN state'.primaryDecimalAmount = <<"0">>
                ELSE state'.secondaryDecimalAmount = SecondaryFromPrimary(Ratio, <<"0">>)]_vars

\* the reset fired on a mounted widget whose secondary side is active and
\* whose override had populated it
C16_Witness ==
  /\ lastOp.kind = "timer50"
  /\ phase = "mounted"
  /\ state.isToggled
  /\ props.primaryInfo.currencyCode = "ETH"
  /\ state.overridePrimaryDecimalAmount = <<"1", ",", "2", "5", "9">>
  /\ state.primaryDecimalAmount = <<"0">>
  /\ state.secondaryDecimalAmount = <<"0">>

\* s.replace(/,/g, '.'): every comma turned into a period
ReplaceAll(s, from, to) == [i \in 1..Len(s) |-> IF s[i] = from THEN to ELSE s[i]]

\* the override the parent passes, as the sanitizer cleans it for this widget
SanitizedOverride ==
  sanitizeDecimalAmount(props.overridePrimaryDecimalAmount, props.primaryInfo.maxEntryDecimals)

\* C17: sanitizeDecimalAmount(s, n) is s with every comma turned into a
\* period, every other character that is not a digit or a period removed, and
\* the result truncated: only digits and periods, at most one period, at
\* most n digits after it.
C17_SanitizeEveryComma ==
  /\ SanitizedOverride
       = truncateDecimalsPeriod(
           StripNonNumeric(ReplaceAll(props.overridePrimaryDecimalAmount, ",", ".")),
           props.primaryInfo.maxEntryDecimals)
  /\ \A i \in 1..Len(SanitizedOverride) :
       IsDigit(SanitizedOverride[i]) \/ SanitizedOverride[i] = "."
  /\ CountOf(SanitizedOverride, ".") <= 1
  /\ Scale(SanitizedOverride) <= props.primaryInfo.maxEntryDecimals

\* C18: sanitizing a sanitized string with the same bound returns it unchanged.
C18_SanitizeIdempotent ==
  sanitizeDecimalAmount(SanitizedOverride, props.primaryInfo.maxEntryDecimals)
    = SanitizedOverride

\* C19: a key the accumulator rejects (a period or comma after a period, a
\* letter, Enter, the empty key) leaves the whole state and the props as they
\* were, invokes no onAmountChanged and raises no error.
C19_RejectedKeyIsNoOp ==
  [][(lastOp'.kind = "key" /\ ~AcceptedKey(lastOp'.key, ActiveDecimalAmount(state)))
     => /\ state' = state
        /\ props' = props
        /\ calls' = << >>
        /\ ~fault'
        /\ errors' = 0]_vars

\* C20: a Backspace never throws; it shortens the active accumulator or leaves
\* it at "0", and from "0" it leaves "0": repeated Backspace reaches that
\* value and stays there.
C20_BackspaceFloor ==
  [][(lastOp'.kind = "key" /\ lastOp'.key = Backspace)
     => /\ ~fault'
        /\ \/ Len(ActiveDecimalAmount(state')) < Len(ActiveDecimalAmount(state))
           \/ ActiveDecimalAmount(state') = <<"0">>
        /\ ActiveDecimalAmount(state) \in {<< >>, <<"0">>}
             => ActiveDecimalAmount(state') = <<"0">>]_vars

\* the display amount of a side renders its decimal amount; a side that no
\* conversion has written yet holds two empty strings
DisplayRenders(displayAmount, decimalAmount) ==
  decimalAmount # << >> => displayAmount = Display(decimalAmount)

\* C21: in every reachable state each display amount is
\* formatNumberInput(prettifyNumber(...)) of the decimal amount of its side,
\* also after the mount-time timers of a mount with isFiatOnTop.
C21_DisplayRendersDecimal ==
  ~fault =>
    /\ DisplayRenders(state.primaryDisplayAmount, state.primaryDecimalAmount)
    /\ DisplayRenders(state.secondaryDisplayAmount, state.secondaryDecimalAmount)

\* the widget has been constructed and nothing else has happened
Constructed == phase = "constructed" /\ lastOp.kind = "constructor"

\* the pair the constructor derives from a provided override
PopulatedFromOverride ==
  /\ state.primaryDecimalAmount
       = sanitizeDecimalAmount(props.overridePrimaryDecimalAmount,
                               props.primaryInfo.maxEntryDecimals)
  /\ SecondaryIsDerived

\* C22 as stated: at construction the pair is populated from the override when
\* one is provided and otherwise starts at "0", and the primary side is active.
C22_StartsAtZero ==
  Constructed =>
    /\ ~state.isToggled
    /\ IF props.overridePrimaryDecimalAmount # << >>
       THEN PopulatedFromOverride
       ELSE /\ state.primaryDecimalAmount = <<"0">>
            /\ state.secondaryDecimalAmount = <<"0">>

\* C22 amended: at construction the pair is populated from the override when
\* one is provided and otherwise starts empty, its four amounts being the empty
\* string (of value zero), and the primary side is active.
C22_StartsEmpty ==
  Constructed =>
    /\ ~state.isToggled
    /\ IF props.overridePrimaryDecimalAmount # << >>
       THEN PopulatedFromOverride
       ELSE /\ AmountPair(state) = <<<< >>, << >>, << >>, << >>>>
            /\ bnsEq(state.primaryDecimalAmount, <<"0">>)
            /\ bnsEq(state.secondaryDecimalAmount, <<"0">>)

\* a widget constructed with an override that the sanitizer rewrites and truncates
C22_Witness ==
  /\ Constructed
  /\ props.overridePrimaryDecimalAmount = <<"1", ",", "1">>
  /\ props.primaryInfo.maxEntryDecimals = 0
  /\ state.primaryDecimalAmount = <<"1">>
  /\ state.secondaryDecimalAmount = <<"2">>

\* maxEntryDecimals of the side being typed into
ActiveMaxEntryDecimals(st, p) ==
  IF st.isToggled THEN p.secondaryInfo.maxEntryDecimals ELSE p.primaryInfo.maxEntryDecimals

\* the accumulator holds a period and as many fractional digits as the bound
FractionFull(decimalAmount, maxEntryDecimals) ==
  Includes(decimalAmount, ".") /\ Scale(decimalAmount) = maxEntryDecimals

\* C23: an accepted key leaves the active accumulator at the truncation, to
\* maxEntryDecimals of the active side, of the accumulator without its last
\* character (Backspace) or with the key appended (digit, period); a digit
\* typed into an accumulator whose fraction is full leaves it unchanged.
C23_KeypadAccumulates ==
  [][(/\ lastOp'.kind = "key"
      /\ AcceptedKey(lastOp'.key, ActiveDecimalAmount(state)))
     => /\ ActiveDecimalAmount(state')
             = Accumulated(ActiveDecimalAmount(state), lastOp'.key,
                           ActiveMaxEntryDecimals(state, props))
        /\ (/\ lastOp'.key # Backspace
            /\ IsDigit(lastOp'.key[1])
            /\ FractionFull(ActiveDecimalAmount(state), ActiveMaxEntryDecimals(state, props)))
             => ActiveDecimalAmount(state') = ActiveDecimalAmount(state)]_vars

\* the characters of a clipboard that a numeric accumulator can take
Numeric(clipboard) == StripNonNumeric(ReplaceAll(clipboard, ",", "."))

\* C24: a toggle made while a clipboard read is pending flips the active side
\* and leaves the read pending; the paste that completes keeps isToggled as it
\* finds it and, when it reports no error, replays the clipboard against the
\* side active at that moment: that side's accumulator ends with the pasted
\* characters it accepts, and the other side is derived from it.
C24_PasteUsesSideAtCompletion ==
  [][/\ (lastOp'.kind = "toggle" /\ pasteReads > 0)
          => /\ state'.isToggled = ~state.isToggled
             /\ pasteReads' = pasteReads
     /\ lastOp'.kind = "paste"
          => /\ state'.isToggled = state.isToggled
             /\ (errors' = 0 /\ Numeric(lastOp'.key) # << >>)
                  => /\ \E n \in 0..Len(ActiveDecimalAmount(state')) :
                          /\ n <= Len(Numeric(lastOp'.key))
                          /\ n > 0
                          /\ Drop(ActiveDecimalAmount(state'),
                                  Len(ActiveDecimalAmount(state')) - n)
                               = Take(Numeric(lastOp'.key), n)
                     /\ IF state.isToggled
                        THEN /\ PrimaryFromSecondaryDefined(Ratio, state'.secondaryDecimalAmount)
                             /\ state'.primaryDecimalAmount
                                  = PrimaryFromSecondary(Ratio, state'.secondaryDecimalAmount)
                        ELSE state'.secondaryDecimalAmount
                               = SecondaryFromPrimary(Ratio, state'.primaryDecimalAmount)
                     /\ calls'[Len(calls')] = state'.primaryDecimalAmount]_vars

\* a paste of "1,1" that completed while the secondary side was active
C24_Witness ==
  /\ lastOp = Op("paste", <<"1", ",", "1">>)
  /\ errors = 0
  /\ state.isToggled
  /\ state.secondaryDecimalAmount = <<"1", ".", "1">>
  /\ state.primaryDecimalAmount = <<"0", ".", "5", "5">>

\* C25: componentDidMount makes the secondary side active exactly when
\* isFiatOnTop is set; the 650 ms timer of a mounted widget leaves isToggled
\* false when the ratio is zero or empty at that moment and leaves it as it
\* is otherwise; without isFiatOnTop no step but a toggle of the user takes
\* isToggled away from false.
C25_MountFace ==
  [][/\ lastOp'.kind = "componentDidMount" => state'.isToggled = props.isFiatOnTop
     /\ (lastOp'.kind = "timer650" /\ phase = "mounted")
          => state'.isToggled = (IF IsZeroRatio(Ratio) THEN FALSE ELSE state.isToggled)
     /\ (~props.isFiatOnTop /\ ~state.isToggled /\ lastOp'.kind # "toggle")
          => ~state'.isToggled]_vars

\* the focus timer of a widget mounted with the fiat face up found the ratio
\* unknown and toggled back
C25_Witness ==
  /\ lastOp.kind = "timer650"
  /\ phase = "mounted"
  /\ props.isFiatOnTop /\ props.isFocus
  /\ IsZeroRatio(Ratio)
  /\ ~state.isToggled
  /\ ~fault

\* the handlers of the TextInput of the active side
ActiveKeyPress(os, st, p, key) ==
  IF st.isToggled THEN onSecondaryKeyPress(os, st, p, key) ELSE onPrimaryKeyPress(os, st, p, key)

ActiveChangeText(os, st, p, value) ==
  IF st.isToggled THEN onSecondaryChangeText(os, st, p, value)
  ELSE onPrimaryChangeText(os, st, p, value)

\* the handler returned without touching the state or calling back
Ignored(r, st) == r = Result(st, << >>, TRUE)

\* C26: on either platform one key is applied to the active accumulator
\* exactly once (one truncated append or deletion and one onAmountChanged for
\* an accepted key, nothing for a rejected one); on Android the key-press
\* handler ignores a digit and the change-text handler ignores every other
\* character, on iOS the change-text handler ignores every text.
C26_OneKeyAppliedOnce ==
  [][lastOp'.kind = "key"
     => /\ IF AcceptedKey(lastOp'.key, ActiveDecimalAmount(state))
           THEN /\ ActiveDecimalAmount(state')
                     = Accumulated(ActiveDecimalAmount(state), lastOp'.key,
                                   ActiveMaxEntryDecimals(state, props))
                /\ calls' = <<state'.primaryDecimalAmount>>
           ELSE /\ state' = state
                /\ calls' = << >>
        /\ ~fault'
        /\ Len(lastOp'.key) = 1
             => /\ (platformOS = "android" /\ IsDigit(lastOp'.key[1]))
                     => Ignored(ActiveKeyPress(platformOS, state, props, lastOp'.key), state)
                /\ (platformOS = "android" /\ ~IsDigit(lastOp'.key[1]))
                     => Ignored(ActiveChangeText(platformOS, state, props, lastOp'.key), state)
                /\ platformOS = "ios"
                     => Ignored(ActiveChangeText(platformOS, state, props, lastOp'.key), state)]_vars

\* on Android the digit 5 was typed after "1." on the secondary side and is
\* there once
C26_Witness ==
  /\ platformOS = "android"
  /\ lastOp = Op("key", <<"5">>)
  /\ state.isToggled
  /\ state.secondaryDecimalAmount = <<"1", ".", "5">>
  /\ calls = <<state.primaryDecimalAmount>>
\* the calls of this kind in the trace of the running or last submit
CallsOf(fn) == {i \in DOMAIN sendScene.trace : sendScene.trace[i].fn = fn}

\* C27: in submit every updateSpendPending(true) is followed by
\* updateSpendPending(false) before any modal, error display or
\* signBroadcastAndSave call, on every way the fee check settles; only the
\* submit that still awaits the fee check has not cleared it, and the pending
\* flag is false whenever submit has returned
C27_PendingCleared ==
  /\ \A i \in DOMAIN sendScene.trace :
        sendScene.trace[i] = UpdateSpendPendingCall(TRUE)
          => IF i = Len(sendScene.trace)
             THEN sendScene.pc = "checkRecordSendFee"
             ELSE sendScene.trace[i + 1] = UpdateSpendPendingCall(FALSE)
  /\ sendScene.pc = "returned" => ~sendScene.pending
  /\ sendScene.pc = "Airship.show" => ~sendScene.pending

\* a submit whose fee check resolved has returned after the send
C27_Witness ==
  /\ sendScene.pc = "returned"
  /\ sendScene.feeCheck = "resolved"
  /\ UpdateSpendPendingCall(TRUE) \in {sendScene.trace[i] : i \in DOMAIN sendScene.trace}
  /\ CallsOf("signBroadcastAndSave") # {}

\* C28: submit sets state.loading when it starts, and state.loading is false
\* again whenever submit has returned: after a plain send, a FIO send, a fee
\* check that failed, and a cancelled modal
C28_LoadingCleared ==
  /\ sendScene.pc \in {"checkRecordSendFee", "Airship.show"} => sendScene.loading
  /\ sendScene.pc = "returned" => ~sendScene.loading

\* C29: a submit calls signBroadcastAndSave at most once; after a fee check
\* that threw it calls it only for the no-bundled-transactions error with a
\* currency other than FIO and the answer ok, and then with
\* fioSender.skipRecord true; for another error, a cancelled or a dismissed
\* modal it does not call it
C29_SignAtMostOnce ==
  /\ Cardinality(CallsOf("signBroadcastAndSave")) <= 1
  /\ sendScene.feeCheck \in ErrorCodes
       => \A i \in CallsOf("signBroadcastAndSave") :
            /\ sendScene.feeCheck = FIO_NO_BUNDLED_ERR_CODE
            /\ sendScene.selectedCurrencyCode # FIO_STR
            /\ sendScene.answer = "ok"
            /\ sendScene.trace[i].fioSender
            /\ sendScene.trace[i].skipRecord
            /\ sendScene.fioSender.skipRecord

\* the user answered ok to the modal and the send went out without the record
C29_Witness ==
  /\ sendScene.pc = "returned"
  /\ sendScene.feeCheck = FIO_NO_BUNDLED_ERR_CODE
  /\ sendScene.answer = "ok"
  /\ Cardinality(CallsOf("signBroadcastAndSave")) = 1
  /\ \A i \in CallsOf("signBroadcastAndSave") : sendScene.trace[i].skipRecord

\* the amount without its sign
Unsigned(text) == IF text # << >> /\ text[1] = "-" THEN Drop(text, 1) ELSE text

\* the place of the decimal mark of an amount, comma or period; 0 for none
DecimalMark(text) == Max(IndexOf(text, ","), IndexOf(text, "."))

\* the entered text is a number from end to end: digits with at most one
\* decimal mark, comma or period, after an optional sign
IsNumeral(text) ==
  /\ \E i \in DOMAIN text : IsDigit(text[i])
  /\ CountOf(Unsigned(text), ",") + CountOf(Unsigned(text), ".") <= 1
  /\ \A i \in DOMAIN Unsigned(text) :
        IsDigit(Unsigned(text)[i]) \/ Unsigned(text)[i] \in {",", "."}

\* the number such a text writes
NumeralValue(text) ==
  LET body == Unsigned(text)
      mark == DecimalMark(body)
  IN  IF mark = 0 THEN JsNumber(text[1] = "-", body, << >>)
      ELSE JsNumber(text[1] = "-", Take(body, mark - 1), Drop(body, mark))

\* the entered text is no number however it is read: it holds no digit, or it
\* starts with a character no number starts with
Unreadable(text) ==
  /\ text # << >>
  /\ \/ \A i \in DOMAIN text : ~IsDigit(text[i])
     \/ ~(IsDigit(text[1]) \/ text[1] \in {"-", ",", "."})

\* what the save of this text over this metadata is to store
SavedAsEntered(text, before, stored) ==
  /\ text = << >> => IsZero(stored)
  /\ IsNumeral(text) => stored = NumeralValue(text)
  /\ Unreadable(text) => stored = (IF before.defined THEN before.amountFiat ELSE JsZero)

\* C30: onSaveTxDetails stores as metadata.amountFiat the previously saved
\* amountFiat (0 without metadata) when the entered text is not a number,
\* zero when it is the empty string, and the number when it is one (a comma
\* read as the decimal point)
C30_SavedAmountFiat ==
  [][txDetails'.op = "onSaveTxDetails" /\ txDetails'.amountFiat = txDetails.amountFiat
       => /\ txDetails'.metadata.defined
          /\ txDetails'.saved = txDetails'.metadata.amountFiat
          /\ SavedAsEntered(txDetails.amountFiat, txDetails.metadata,
                            txDetails'.metadata.amountFiat)]_vars

\* C30 without its empty-string case
C30_SavedWhenNotEmpty ==
  [][txDetails'.op = "onSaveTxDetails" /\ txDetails'.amountFiat = txDetails.amountFiat
       /\ txDetails.amountFiat # << >>
       => SavedAsEntered(txDetails.amountFiat, txDetails.metadata,
                         txDetails'.metadata.amountFiat)]_vars

====
